---- MODULE Spec2Model ----
(***************************************************************************)
(* GoVPNUI backend (main.go): the text-to-model extraction of swanctl      *)
(* output.  Texts are strings, characters are one-character strings, and   *)
(* every regular expression of main.go is written out as a sequence of     *)
(* items and run by a backtracking matcher with Go's leftmost-first        *)
(* semantics, so that which lines match, and what they capture, is         *)
(* computed from the patterns and not assumed.                             *)
(***************************************************************************)
EXTENDS Integers, Sequences, FiniteSets, TLC

(***************************************************************************)
(* Characters                                                              *)
(***************************************************************************)
Ch(s, i) == SubSeq(s, i, i)

\* a function as an explicit table, so that its values are computed once
Tabulate(f) == f @@ <<>>

Chars(s) == {Ch(s, i) : i \in 1..Len(s)}

Digits == Chars("0123456789")

UpperLetters == "ABCDEFGHIJKLMNOPQRSTUVWXYZ"

LowerLetters == "abcdefghijklmnopqrstuvwxyz"

Letters == Chars(UpperLetters) \cup Chars(LowerLetters)

\* the printable ASCII characters in code order: 32 (space) to 95 (_), and
\* 97 (a) to 126 (~)
AsciiLo == " !\"#$%&'()*+,-./0123456789:;<=>?@ABCDEFGHIJKLMNOPQRSTUVWXYZ[\\]^_"

AsciiHi == "abcdefghijklmnopqrstuvwxyz{|}~"

CodeTable ==
    Tabulate([c \in Chars(AsciiLo) \cup Chars(AsciiHi) |->
                IF c \in Chars(AsciiLo)
                THEN 31 + (CHOOSE i \in 1..Len(AsciiLo) : Ch(AsciiLo, i) = c)
                ELSE 96 + (CHOOSE i \in 1..Len(AsciiHi) : Ch(AsciiHi, i) = c)])

\* byte value of a character
Code(c) ==
    IF c = "\t" THEN 9
    ELSE IF c = "\n" THEN 10
    ELSE IF c = "\f" THEN 12
    ELSE IF c = "\r" THEN 13
    ELSE CodeTable[c]

FoldTable ==
    Tabulate([c \in Chars(UpperLetters) |->
                Ch(LowerLetters, CHOOSE i \in 1..26 : Ch(UpperLetters, i) = c)])

\* simple case folding of (?i), ASCII
Fold(c) == IF c \in DOMAIN FoldTable THEN FoldTable[c] ELSE c

\* regexp classes: \s, \d, \w, [A-Za-z0-9._:-], [0-9A-Fa-fx], [\d,], [,\s]
SpaceCls == {" ", "\t", "\n", "\f", "\r"}

WordCls == Letters \cup Digits \cup {"_"}

NameCls == Letters \cup Digits \cup {".", "_", ":", "-"}

HexCls == Digits \cup Chars("ABCDEFabcdefx")

NumCls == Digits \cup {","}

SepCls == SpaceCls \cup {","}

(***************************************************************************)
(* Regular expressions.  A pattern is a sequence of items:                 *)
(*   lit  a literal string                                                 *)
(*   cls  a character class (cs, or its complement when neg) repeated      *)
(*        min..max times (max = -1: unbounded), greedy or lazy, stored     *)
(*        as capture group cap when cap > 0                                *)
(*   grp  a non-capturing group of alternatives, tried in order            *)
(*   wb   \b     bol  ^     eol  $                                         *)
(***************************************************************************)
Lit(s) == [k |-> "lit", s |-> s]

Cls(cs, neg, min, max, lazy, cap) ==
    [k |-> "cls", cs |-> cs, neg |-> neg, min |-> min, max |-> max, lazy |-> lazy, cap |-> cap]

Grp(alts) == [k |-> "grp", alts |-> alts]

WB == [k |-> "wb"]

BOL == [k |-> "bol"]

EOL == [k |-> "eol"]

\* \s*  \s+  \d+  .*  .*?  and the capture groups of main.go
Ws0 == Cls(SpaceCls, FALSE, 0, -1, FALSE, 0)

Ws1 == Cls(SpaceCls, FALSE, 1, -1, FALSE, 0)

Dig1 == Cls(Digits, FALSE, 1, -1, FALSE, 0)

Any0 == Cls({"\n"}, TRUE, 0, -1, FALSE, 0)

Any0Lazy == Cls({"\n"}, TRUE, 0, -1, TRUE, 0)

NameCap == Cls(NameCls, FALSE, 1, -1, FALSE, 1)

QuotedCap == Cls({"'"}, TRUE, 1, -1, FALSE, 1)

NumCap(c) == Cls(NumCls, FALSE, 1, -1, FALSE, c)

\* (?:child\s+)?
OptChild == Grp(<< <<Lit("child"), Ws1>>, <<>> >>)

NoCaps == <<"", "">>

NoMatch == [ok |-> FALSE, start |-> 0, end |-> 0, caps |-> NoCaps]

InCls(it, c) == IF it.neg THEN c \notin it.cs ELSE c \in it.cs

RECURSIVE RunLen(_, _, _, _)
\* how many characters from pos on are in the class of it, at most it.max
RunLen(it, s, pos, n) ==
    IF pos + n > Len(s) THEN n
    ELSE IF it.max >= 0 /\ n >= it.max THEN n
    ELSE IF InCls(it, Ch(s, pos + n)) THEN RunLen(it, s, pos, n + 1)
    ELSE n

RECURSIVE LitAt(_, _, _, _, _)
LitAt(s, pos, l, i, ci) ==
    IF i > Len(l) THEN TRUE
    ELSE IF pos + i - 1 > Len(s) THEN FALSE
    ELSE LET a == Ch(s, pos + i - 1)
             b == Ch(l, i)
         IN  IF (IF ci THEN Fold(a) = Fold(b) ELSE a = b)
             THEN LitAt(s, pos, l, i + 1, ci)
             ELSE FALSE

IsWordAt(s, pos) == pos >= 1 /\ pos <= Len(s) /\ Ch(s, pos) \in WordCls

AtWordBoundary(s, pos) == IsWordAt(s, pos - 1) # IsWordAt(s, pos)

AtBol(s, pos, ml) == pos = 1 \/ (ml /\ Ch(s, pos - 1) = "\n")

AtEol(s, pos, ml) == pos = Len(s) + 1 \/ (ml /\ Ch(s, pos) = "\n")

RECURSIVE MatchItems(_, _, _, _, _, _)
RECURSIVE TryCounts(_, _, _, _, _, _, _, _)
RECURSIVE TryAlts(_, _, _, _, _, _, _, _)

\* the repetition counts of a class, in preference order: n, then the next
\* one (n-1 when greedy, n+1 when lazy), up to the last count
TryCounts(it, rest, s, pos, caps, fl, n, last) ==
    LET caps2 == IF it.cap > 0
                 THEN [caps EXCEPT ![it.cap] = SubSeq(s, pos, pos + n - 1)]
                 ELSE caps
        r == MatchItems(rest, s, pos + n, caps2, fl, 0)
    IN  IF r.ok THEN r
        ELSE IF n = last THEN NoMatch
        ELSE TryCounts(it, rest, s, pos, caps, fl, IF it.lazy THEN n + 1 ELSE n - 1, last)

TryAlts(alts, i, rest, s, pos, caps, fl, d) ==
    IF i > Len(alts) THEN NoMatch
    ELSE LET r == MatchItems(alts[i] \o rest, s, pos, caps, fl, d)
         IN  IF r.ok THEN r ELSE TryAlts(alts, i + 1, rest, s, pos, caps, fl, d)

\* backtracking match of the items at position pos (leftmost-first: the
\* first alternative, and the preferred repetition count, that lets the
\* rest of the pattern match)
MatchItems(items, s, pos, caps, fl, d) ==
    IF items = <<>> THEN [ok |-> TRUE, start |-> 0, end |-> pos, caps |-> caps]
    ELSE LET it == Head(items)
             rest == Tail(items)
         IN  CASE it.k = "lit" ->
                    IF LitAt(s, pos, it.s, 1, fl.ci)
                    THEN MatchItems(rest, s, pos + Len(it.s), caps, fl, d)
                    ELSE NoMatch
               [] it.k = "cls" ->
                    LET run == RunLen(it, s, pos, 0)
                    IN  IF run < it.min THEN NoMatch
                        ELSE IF it.lazy
                        THEN TryCounts(it, rest, s, pos, caps, fl, it.min, run)
                        ELSE TryCounts(it, rest, s, pos, caps, fl, run, it.min)
               [] it.k = "grp" -> TryAlts(it.alts, 1, rest, s, pos, caps, fl, d)
               [] it.k = "wb" ->
                    IF AtWordBoundary(s, pos) THEN MatchItems(rest, s, pos, caps, fl, d) ELSE NoMatch
               [] it.k = "bol" ->
                    IF AtBol(s, pos, fl.ml) THEN MatchItems(rest, s, pos, caps, fl, d) ELSE NoMatch
               [] it.k = "eol" ->
                    IF AtEol(s, pos, fl.ml) THEN MatchItems(rest, s, pos, caps, fl, d) ELSE NoMatch

\* regexp.FindStringSubmatchIndex from position pos on: the match at the
\* leftmost position where the pattern matches
FindFrom(re, s, pos) ==
    LET starts == IF Head(re.items).k = "bol" /\ ~re.ml THEN {1} \cap (pos..1) ELSE pos..(Len(s) + 1)
        hits == {p \in starts : MatchItems(re.items, s, p, NoCaps, re, 0).ok}
    IN  IF hits = {} THEN NoMatch
        ELSE LET p == CHOOSE q \in hits : \A q2 \in hits : q <= q2
             IN  [MatchItems(re.items, s, p, NoCaps, re, 0) EXCEPT !.start = p]

\* regexp.FindStringSubmatch: m.ok is "m != nil", m.caps[i] is m[i]
FindStringSubmatch(re, s) == FindFrom(re, s, 1)

MatchString(re, s) == FindStringSubmatch(re, s).ok

RECURSIVE FindAllFrom(_, _, _)
FindAllFrom(re, s, pos) ==
    LET r == FindFrom(re, s, pos)
    IN  IF ~r.ok THEN <<>>
        ELSE <<r>> \o FindAllFrom(re, s, IF r.end > r.start THEN r.end ELSE r.end + 1)

\* regexp.FindAllStringSubmatch(s, -1): successive non-overlapping matches
FindAllStringSubmatch(re, s) == FindAllFrom(re, s, 1)

Re(items, ci, ml) == [items |-> items, ci |-> ci, ml |-> ml]


(***************************************************************************)
(* strings, sort                                                           *)
(***************************************************************************)
\* index of the first "\n" at or after position i, Len(s) + 1 when none
NextNewline(s, i) ==
    LET nl == {j \in i..Len(s) : Ch(s, j) = "\n"}
    IN  IF nl = {} THEN Len(s) + 1 ELSE CHOOSE j \in nl : \A k \in nl : j <= k

RECURSIVE SplitFrom(_, _)
SplitFrom(s, beg) ==
    LET e == NextNewline(s, beg)
    IN  IF e > Len(s) THEN <<SubSeq(s, beg, Len(s))>>
        ELSE <<SubSeq(s, beg, e - 1)>> \o SplitFrom(s, e + 1)

\* strings.Split(s, "\n")
Split(s) == SplitFrom(s, 1)

RECURSIVE Join(_, _)
\* strings.Join(a, sep)
Join(a, sep) ==
    IF a = <<>> THEN ""
    ELSE IF Len(a) = 1 THEN a[1]
    ELSE a[1] \o sep \o Join(Tail(a), sep)

RECURSIVE TrimLeft(_)
TrimLeft(s) == IF Len(s) > 0 /\ Ch(s, 1) \in SpaceCls THEN TrimLeft(SubSeq(s, 2, Len(s))) ELSE s

RECURSIVE TrimRight(_)
TrimRight(s) ==
    IF Len(s) > 0 /\ Ch(s, Len(s)) \in SpaceCls THEN TrimRight(SubSeq(s, 1, Len(s) - 1)) ELSE s

\* strings.TrimSpace
TrimSpace(s) == TrimRight(TrimLeft(s))

RECURSIVE StrLessFrom(_, _, _)
StrLessFrom(a, b, i) ==
    IF i > Len(b) THEN FALSE
    ELSE IF i > Len(a) THEN TRUE
    ELSE IF Code(Ch(a, i)) < Code(Ch(b, i)) THEN TRUE
    ELSE IF Code(Ch(a, i)) > Code(Ch(b, i)) THEN FALSE
    ELSE StrLessFrom(a, b, i + 1)

\* Go's a < b on strings: byte-wise lexicographic
StrLess(a, b) == StrLessFrom(a, b, 1)

RECURSIVE SortStrings(_)
\* the elements of a set of strings as sort.Strings leaves them
SortStrings(S) ==
    IF S = {} THEN <<>>
    ELSE LET m == CHOOSE a \in S : \A b \in S \ {a} : StrLess(a, b)
         IN  <<m>> \o SortStrings(S \ {m})

Range(f) == {f[i] : i \in DOMAIN f}

RECURSIVE ReSplitFrom(_, _, _, _, _)
ReSplitFrom(s, matches, i, beg, end) ==
    IF i > Len(matches)
    THEN IF end # Len(s) THEN <<SubSeq(s, beg + 1, Len(s))>> ELSE <<>>
    ELSE LET ms == matches[i].start - 1
             me == matches[i].end - 1
         IN  (IF me # 0 THEN <<SubSeq(s, beg + 1, ms)>> ELSE <<>>)
             \o ReSplitFrom(s, matches, i + 1, me, ms)

\* (*Regexp).Split(s, -1); beg and end are the byte offsets of the Go code
ReSplit(re, s) ==
    IF Len(s) = 0 THEN <<"">>
    ELSE ReSplitFrom(s, FindAllStringSubmatch(re, s), 1, 0, 0)

RECURSIVE stripCommas(_)
stripCommas(s) ==
    IF Len(s) = 0 THEN ""
    ELSE (IF Ch(s, 1) = "," THEN "" ELSE Ch(s, 1)) \o stripCommas(SubSeq(s, 2, Len(s)))

DigitValue(c) == Code(c) - 48

\* An int64 is its 64 bits in two's complement, kept as four limbs of 16
\* bits, least significant limb first.
LimbBase == 65536

Int64Limbs == 4

\* the int64 of a small natural number
Int64Of(k) ==
    [i \in 1..Int64Limbs |->
        IF i = 1 THEN k % LimbBase
        ELSE IF i = 2 THEN (k \div LimbBase) % LimbBase
        ELSE 0] @@ <<>>

\* var n int64
Int64Zero == Int64Of(0)

RECURSIVE Int64MulAddFrom(_, _, _, _)
Int64MulAddFrom(n, m, carry, i) ==
    IF i > Int64Limbs THEN <<>>
    ELSE LET t == n[i] * m + carry
         IN  <<t % LimbBase>> \o Int64MulAddFrom(n, m, t \div LimbBase, i + 1)

\* n*m + d on int64: the carry out of the top limb is lost (Go wraps)
Int64MulAdd(n, m, d) == Int64MulAddFrom(n, m, d, 1)

\* n = n*10 + int64(c-'0')
Int64Step(n, d) == Int64MulAdd(n, 10, d)

\* one pass of the for loop of parseInt64 with i at the i-th byte of s:
\* the return, or the assignment to n and i++
parseInt64Iter(s, i, n) ==
    IF i > Len(s) \/ Ch(s, i) \notin Digits
    THEN [returns |-> TRUE, i |-> i, n |-> n]
    ELSE [returns |-> FALSE, i |-> i + 1, n |-> Int64Step(n, DigitValue(Ch(s, i)))]

RECURSIVE parseInt64From(_, _, _)
parseInt64From(s, i, n) ==
    LET r == parseInt64Iter(s, i, n)
    IN  IF r.returns THEN r.n ELSE parseInt64From(s, r.i, r.n)

parseInt64(s) == parseInt64From(s, 1, Int64Zero)


(***************************************************************************)
(* Inputs: what the swanctl commands print.  A text is up to MaxLines      *)
(* lines of a catalogue joined by "\n"; the catalogue has a line for       *)
(* every pattern of the parsers and lines that several patterns match.     *)
(***************************************************************************)
MaxLines == 3

MaxConnsLines == 2

MaxFallbackLines == 2

SasLines ==
    { "tun1: #3, reqid 1, INSTALLED, TUNNEL, ESP:AES_CBC",
      "in  0xc1234567,  1000 bytes,   10 packets",
      "out 0xc7654321,  2000 bytes,   20 packets",
      "  in: 1,234 bytes, 5 packets",
      "tun2{1}:  INSTALLED, TUNNEL",
      "tun2{2}",
      "CHILD_SA tun3{1}x",
      "child 'tun1'",
      "tun3: INSTALLED, TUNNEL",
      "tun2{1}: installed CHILD_SA 'tun4'",
      "in: #1, ESP: bytes 5 packets 6" }

ConnsLines ==
    { "  site-b: TUNNEL, reqid 1",
      "  site-a: TUNNEL, reqid 2",
      "  children: site-a, site-c",
      "child site-b",
      "",
      "site-d: TUNNEL",
      "conn1: IKEv2" }

FallbackLines ==
    { "tun1{1}: AES",
      "CHILD_SA tun1{2}x",
      "child 'tun2'",
      "child ' '",
      "tun3: INSTALLED" }

\* the sequences of at most n elements of S
SeqsUpTo(S, n) == UNION {[1..k -> S] : k \in 0..n}

TextsOf(S, n) == {Join(ls, "\n") : ls \in SeqsUpTo(S, n)}

SasTexts == TextsOf(SasLines, MaxLines)

ConnsTexts == TextsOf(ConnsLines, MaxConnsLines)

FallbackTexts == TextsOf(FallbackLines, MaxFallbackLines)

\* A token given to the integer normalization is a head followed by up to
\* MaxTokenParts pieces of a catalogue of digits, commas and other
\* characters.  The heads are empty or digit runs next to the ends of the
\* int64 range (2^63 - 1 is 9223372036854775807 and 2^64 is
\* 18446744073709551616).
MaxTokenParts == 3

TokenHeads == { "", "922337203685477580", "1844674407370955161" }

TokenParts == { "0", "7", "8", "12", ",", "abc", "1,234,567" }

Tokens == {h \o Join(ps, "") : h \in TokenHeads, ps \in SeqsUpTo(TokenParts, MaxTokenParts)}

(***************************************************************************)
(* /children_json: the patterns of parseChildrenFromListConns and of       *)
(* parseChildrenFromListSas                                                *)
(***************************************************************************)
\* (?m)^\s+([A-Za-z0-9._:-]+):\s+TUNNEL\b
reChildTunnel == Re(<<BOL, Ws1, NameCap, Lit(":"), Ws1, Lit("TUNNEL"), WB>>, FALSE, TRUE)

\* (?i)\bchildren:\s*(.+)$
reChildren ==
    Re(<<WB, Lit("children:"), Ws0, Cls({"\n"}, TRUE, 1, -1, FALSE, 1), EOL>>, TRUE, FALSE)

\* [,\s]+
reTokSep == Re(<<Cls(SepCls, FALSE, 1, -1, FALSE, 0)>>, FALSE, FALSE)

\* (?i)^\s*child\s+([A-Za-z0-9._:-]+)\b
reChildLine == Re(<<BOL, Ws0, Lit("child"), Ws1, NameCap, WB>>, TRUE, FALSE)

\* (?m)^\s*(?:child\s+)?([A-Za-z0-9._:-]+)\{\d+\}:?
reBraceSas ==
    Re(<<BOL, Ws0, OptChild, NameCap, Lit("{"), Dig1, Lit("}"),
         Cls({":"}, FALSE, 0, 1, FALSE, 0)>>, FALSE, TRUE)

\* (?m)^\s*CHILD_SA\s+([A-Za-z0-9._:-]+)\{\d+\}\b
reChildSaSas ==
    Re(<<BOL, Ws0, Lit("CHILD_SA"), Ws1, NameCap, Lit("{"), Dig1, Lit("}"), WB>>, FALSE, TRUE)

\* (?m)^\s*child\s+'([^']+)'
reQuotedSas == Re(<<BOL, Ws0, Lit("child"), Ws1, Lit("'"), QuotedCap, Lit("'")>>, FALSE, TRUE)

\* the first capture group of every match, in order
Captures(ms) == [i \in 1..Len(ms) |-> ms[i].caps[1]]

RECURSIVE NonEmptyTrimmed(_)
NonEmptyTrimmed(toks) ==
    IF toks = <<>> THEN <<>>
    ELSE (IF TrimSpace(Head(toks)) # "" THEN <<TrimSpace(Head(toks))>> ELSE <<>>)
         \o NonEmptyTrimmed(Tail(toks))

\* the names one line adds in the "children: a, b, c" loop
ChildrenListLine(line) ==
    LET m == FindStringSubmatch(reChildren, line)
    IN  IF m.ok THEN NonEmptyTrimmed(ReSplit(reTokSep, m.caps[1])) ELSE <<>>

\* the names one line adds in the "child <name>" loop
ChildLine(line) ==
    LET m == FindStringSubmatch(reChildLine, line)
    IN  IF m.ok THEN <<m.caps[1]>> ELSE <<>>

RECURSIVE childrenListLoop(_)
\* for _, line := range strings.Split(text, "\n"), with reChildren
childrenListLoop(ls) ==
    IF ls = <<>> THEN <<>> ELSE ChildrenListLine(Head(ls)) \o childrenListLoop(Tail(ls))

RECURSIVE childLineLoop(_)
\* for _, line := range strings.Split(text, "\n"), with reChildLine
childLineLoop(ls) ==
    IF ls = <<>> THEN <<>> ELSE ChildLine(Head(ls)) \o childLineLoop(Tail(ls))

parseChildrenFromListConns(text) ==
    Captures(FindAllStringSubmatch(reChildTunnel, text))
    \o childrenListLoop(Split(text))
    \o childLineLoop(Split(text))

parseChildrenFromListSas(text) ==
    Captures(FindAllStringSubmatch(reBraceSas, text))
    \o Captures(FindAllStringSubmatch(reChildSaSas, text))
    \o Captures(FindAllStringSubmatch(reQuotedSas, text))

\* the two parsers on the texts of the model, computed once
listConnsMemo == Tabulate([t \in ConnsTexts |-> parseChildrenFromListConns(t)])

listSasMemo == Tabulate([t \in FallbackTexts |-> parseChildrenFromListSas(t)])

ListConnsNames(text) ==
    IF text \in DOMAIN listConnsMemo THEN listConnsMemo[text] ELSE parseChildrenFromListConns(text)

ListSasNames(text) ==
    IF text \in DOMAIN listSasMemo THEN listSasMemo[text] ELSE parseChildrenFromListSas(text)

\* the "Dedup + sort" of childrenJSONHandler
DedupSort(names) == SortStrings({TrimSpace(names[i]) : i \in DOMAIN names} \ {""})

(***************************************************************************)
(* /active_children_json: parseActiveChildrenFromListSas                   *)
(***************************************************************************)
\* (?i)^\s*(?:child\s+)?([A-Za-z0-9._:-]+)\{\d+\}:
reBrace ==
    Re(<<BOL, Ws0, OptChild, NameCap, Lit("{"), Dig1, Lit("}"), Lit(":")>>, TRUE, FALSE)

\* (?i)^\s*CHILD_SA\s+([A-Za-z0-9._:-]+)\{\d+\}\b
reChildSa ==
    Re(<<BOL, Ws0, Lit("CHILD_SA"), Ws1, NameCap, Lit("{"), Dig1, Lit("}"), WB>>, TRUE, FALSE)

\* (?i)^\s*child\s+'([^']+)'
reQuoted == Re(<<BOL, Ws0, Lit("child"), Ws1, Lit("'"), QuotedCap, Lit("'")>>, TRUE, FALSE)

\* (?i)^\s*(?:child\s+)?([A-Za-z0-9._:-]+):\s+INSTALLED\b
reInstalled ==
    Re(<<BOL, Ws0, OptChild, NameCap, Lit(":"), Ws1, Lit("INSTALLED"), WB>>, TRUE, FALSE)

\* (?i)\binstalled\s+CHILD_SA\s+'([^']+)'
reInstalledLog ==
    Re(<<WB, Lit("installed"), Ws1, Lit("CHILD_SA"), Ws1, Lit("'"), QuotedCap, Lit("'")>>,
       TRUE, FALSE)

\* (?i)^\s*(?:child\s+)?([A-Za-z0-9._:-]+):\s*(?:TUNNEL|ESP|ROUTED|ESTABLISHED)\b
reTolerantHeader ==
    Re(<<BOL, Ws0, OptChild, NameCap, Lit(":"), Ws0,
         Grp(<< <<Lit("TUNNEL")>>, <<Lit("ESP")>>, <<Lit("ROUTED")>>, <<Lit("ESTABLISHED")>> >>),
         WB>>, TRUE, FALSE)

\* (?i)^\s*([A-Za-z0-9._:-]+):\s*#\d+,\s.*\bESP:
reChildHashESP ==
    Re(<<BOL, Ws0, NameCap, Lit(":"), Ws0, Lit("#"), Dig1, Lit(","),
         Cls(SpaceCls, FALSE, 1, 1, FALSE, 0), Any0, WB, Lit("ESP:")>>, TRUE, FALSE)

\* activeCases with the case of reInstalledLog moved to the front
activeCasesLogFirst ==
    <<reInstalledLog, reBrace, reChildSa, reQuoted, reInstalled, reChildHashESP,
      reTolerantHeader>>

\* the switch of the loop body: the patterns in case order; the first one
\* that matches the line adds its capture
activeCases ==
    <<reBrace, reChildSa, reQuoted, reInstalled, reInstalledLog, reChildHashESP,
      reTolerantHeader>>

RECURSIVE FirstCase(_, _, _)
\* a switch over MatchString cases: index of the first pattern that matches
\* the line (0: none) and its captures
FirstCase(cases, i, line) ==
    IF i > Len(cases) THEN [case |-> 0, caps |-> NoCaps]
    ELSE LET m == FindStringSubmatch(cases[i], line)
         IN  IF m.ok THEN [case |-> i, caps |-> m.caps] ELSE FirstCase(cases, i + 1, line)

\* the names the switch adds for one line
activeLineNames(line) ==
    LET c == FirstCase(activeCases, 1, line)
    IN  IF c.case = 0 THEN {} ELSE {c.caps[1]}


\* the switch on the lines of the model, computed once
activeLineMemo == Tabulate([l \in SasLines \cup {""} |-> activeLineNames(l)])

ActiveNames(line) ==
    IF line \in DOMAIN activeLineMemo THEN activeLineMemo[line] ELSE activeLineNames(line)

activeLoop(names, line) == names \cup ActiveNames(line)

RECURSIVE activeLines(_, _)
\* for _, line := range lines
activeLines(names, ls) ==
    IF ls = <<>> THEN names ELSE activeLines(activeLoop(names, Head(ls)), Tail(ls))

parseActiveChildrenFromListSas(text) == SortStrings(activeLines({}, Split(text)))

(***************************************************************************)
(* /status_json: parseStatusToStats                                        *)
(***************************************************************************)
\* ^\s*(?:child\s+)?([A-Za-z0-9._:-]+)\{\d+\}:?
reHeaderBrace ==
    Re(<<BOL, Ws0, OptChild, NameCap, Lit("{"), Dig1, Lit("}"),
         Cls({":"}, FALSE, 0, 1, FALSE, 0)>>, FALSE, FALSE)

\* ^\s*CHILD_SA\s+([A-Za-z0-9._:-]+)\{\d+\}\b
reHeaderChildSA ==
    Re(<<BOL, Ws0, Lit("CHILD_SA"), Ws1, NameCap, Lit("{"), Dig1, Lit("}"), WB>>, FALSE, FALSE)

\* ^\s*child\s+'([^']+)'
reHeaderQuoted == Re(<<BOL, Ws0, Lit("child"), Ws1, Lit("'"), QuotedCap, Lit("'")>>, FALSE, FALSE)

\* ^\s*([A-Za-z0-9._:-]+):\s*#\d+,\s.*\bESP:
reHeaderHashESP ==
    Re(<<BOL, Ws0, NameCap, Lit(":"), Ws0, Lit("#"), Dig1, Lit(","),
         Cls(SpaceCls, FALSE, 1, 1, FALSE, 0), Any0, WB, Lit("ESP:")>>, FALSE, FALSE)

\* ^\s*in:\s*([\d,]+)\s*bytes,\s*([\d,]+)\s*packets     (and out:)
rePrimary(dir) ==
    Re(<<BOL, Ws0, Lit(dir), Lit(":"), Ws0, NumCap(1), Ws0, Lit("bytes,"), Ws0, NumCap(2), Ws0,
         Lit("packets")>>, FALSE, FALSE)

\* ^\s*in:.*?\bbytes\s+([\d,]+).*?\bpackets\s+([\d,]+)  (and out:)
reAlt(dir) ==
    Re(<<BOL, Ws0, Lit(dir), Lit(":"), Any0Lazy, WB, Lit("bytes"), Ws1, NumCap(1), Any0Lazy, WB,
         Lit("packets"), Ws1, NumCap(2)>>, FALSE, FALSE)

\* ^\s*in\s+[0-9A-Fa-fx]+,\s*([\d,]+)\s*bytes,\s*([\d,]+)\s*packets   (and out)
reSPI(dir) ==
    Re(<<BOL, Ws0, Lit(dir), Ws1, Cls(HexCls, FALSE, 1, -1, FALSE, 0), Lit(","), Ws0, NumCap(1),
         Ws0, Lit("bytes,"), Ws0, NumCap(2), Ws0, Lit("packets")>>, FALSE, FALSE)

\* ^\s*in\b.*?\bbytes\s+([\d,]+).*?\bpackets\s+([\d,]+)  (and out)
reNoColon(dir) ==
    Re(<<BOL, Ws0, Lit(dir), WB, Any0Lazy, WB, Lit("bytes"), Ws1, NumCap(1), Any0Lazy, WB,
         Lit("packets"), Ws1, NumCap(2)>>, FALSE, FALSE)

reInPrimary == rePrimary("in")

reOutPrimary == rePrimary("out")

reInAlt == reAlt("in")

reOutAlt == reAlt("out")

reInSPI == reSPI("in")

reOutSPI == reSPI("out")

reInNoColon == reNoColon("in")

reOutNoColon == reNoColon("out")

\* the first switch of the loop body, in case order
headerCases == <<reHeaderHashESP, reHeaderBrace, reHeaderChildSA, reHeaderQuoted>>

\* the second switch of the loop body, in case order; odd cases set the
\* inbound counters, even cases the outbound ones
counterCases ==
    <<reInSPI, reOutSPI, reInPrimary, reOutPrimary, reInAlt, reOutAlt, reInNoColon,
      reOutNoColon>>

\* the zero value of ChildStats
ZeroStats ==
    [Active |-> FALSE, InBytes |-> Int64Zero, OutBytes |-> Int64Zero,
     InPkts |-> Int64Zero, OutPkts |-> Int64Zero]

\* st := stats[current]
Lookup(stats, name) == IF name \in DOMAIN stats THEN stats[name] ELSE ZeroStats

\* stats[current] = st
Store(stats, name, st) == [n \in DOMAIN stats \cup {name} |-> IF n = name THEN st ELSE stats[n]]

\* headerCase storing a fresh record instead of updating the one found
headerCaseFreshRecord(ctx, name) ==
    [current |-> name,
     stats |-> Store(ctx.stats, name, [ZeroStats EXCEPT !.Active = TRUE])]

\* a header case: current = m[1]; st.Active = true; continue
headerCase(ctx, name) ==
    [current |-> name,
     stats |-> Store(ctx.stats, name, [Lookup(ctx.stats, name) EXCEPT !.Active = TRUE])]

RECURSIVE Int64AddFrom(_, _, _, _)
Int64AddFrom(a, b, carry, i) ==
    IF i > Int64Limbs THEN <<>>
    ELSE LET t == a[i] + b[i] + carry
         IN  <<t % LimbBase>> \o Int64AddFrom(a, b, t \div LimbBase, i + 1)

\* a + b on int64
Int64Add(a, b) == Int64AddFrom(a, b, 0, 1)

\* counterCase adding to the counts where the code assigns them
counterCaseAccumulate(ctx, case, caps) ==
    LET st == Lookup(ctx.stats, ctx.current)
        bytes == parseInt64(stripCommas(caps[1]))
        pkts == parseInt64(stripCommas(caps[2]))
        st2 == IF case % 2 = 1
               THEN [st EXCEPT !.InBytes = Int64Add(@, bytes), !.InPkts = Int64Add(@, pkts)]
               ELSE [st EXCEPT !.OutBytes = Int64Add(@, bytes), !.OutPkts = Int64Add(@, pkts)]
    IN  [ctx EXCEPT !.stats = Store(ctx.stats, ctx.current, st2)]

\* a counter case on the current connection
counterCase(ctx, case, caps) ==
    LET st == Lookup(ctx.stats, ctx.current)
        bytes == parseInt64(stripCommas(caps[1]))
        pkts == parseInt64(stripCommas(caps[2]))
        st2 == IF case % 2 = 1
               THEN [st EXCEPT !.InBytes = bytes, !.InPkts = pkts]
               ELSE [st EXCEPT !.OutBytes = bytes, !.OutPkts = pkts]
    IN  [ctx EXCEPT !.stats = Store(ctx.stats, ctx.current, st2)]

\* which switch cases a line selects
statusLineCases(line) ==
    [header |-> FirstCase(headerCases, 1, line), counter |-> FirstCase(counterCases, 1, line)]

\* statusLoopWith without the `continue` of the header cases: a header line
\* goes on to the counter switch
statusLoopNoContinue(ctx, cs) ==
    LET ctx2 == IF cs.header.case # 0 THEN headerCase(ctx, cs.header.caps[1]) ELSE ctx
    IN  IF ctx2.current = "" THEN ctx2
        ELSE IF cs.counter.case # 0 THEN counterCase(ctx2, cs.counter.case, cs.counter.caps)
        ELSE ctx2

\* statusLoopWith without the check `if current == "" { continue }`
statusLoopNoCurrentCheck(ctx, cs) ==
    IF cs.header.case # 0 THEN headerCase(ctx, cs.header.caps[1])
    ELSE IF cs.counter.case # 0 THEN counterCase(ctx, cs.counter.case, cs.counter.caps)
    ELSE ctx

\* one iteration of the loop of parseStatusToStats, ctx = (current, stats)
statusLoopWith(ctx, cs) ==
    IF cs.header.case # 0 THEN headerCase(ctx, cs.header.caps[1])
    ELSE IF ctx.current = "" THEN ctx
    ELSE IF cs.counter.case # 0 THEN counterCase(ctx, cs.counter.case, cs.counter.caps)
    ELSE ctx

\* the switch cases of the lines of the model, computed once
statusLineMemo == Tabulate([l \in SasLines \cup {""} |-> statusLineCases(l)])

StatusCases(line) ==
    IF line \in DOMAIN statusLineMemo THEN statusLineMemo[line] ELSE statusLineCases(line)

statusLoop(ctx, line) == statusLoopWith(ctx, StatusCases(line))

\* stats := make(map[string]ChildStats); var current string
StatusStart == [current |-> "", stats |-> <<>>]

RECURSIVE statusLines(_, _)
\* for _, line := range lines
statusLines(ctx, ls) ==
    IF ls = <<>> THEN ctx ELSE statusLines(statusLoop(ctx, Head(ls)), Tail(ls))

parseStatusToStats(text) == statusLines(StatusStart, Split(text)).stats

(***************************************************************************)
(* /debug_active_lines                                                     *)
(***************************************************************************)
reList ==
    << \* (?i)^\s*([A-Za-z0-9._:-]+):\s*#\d+,\s.*\bESP:
       Re(<<BOL, Ws0, NameCap, Lit(":"), Ws0, Lit("#"), Dig1, Lit(","),
            Cls(SpaceCls, FALSE, 1, 1, FALSE, 0), Any0, WB, Lit("ESP:")>>, TRUE, FALSE),
       \* (?i)^\s*(?:child\s+)?([A-Za-z0-9._:-]+)\{\d+\}:
       Re(<<BOL, Ws0, OptChild, NameCap, Lit("{"), Dig1, Lit("}"), Lit(":")>>, TRUE, FALSE),
       \* (?i)^\s*CHILD_SA\s+([A-Za-z0-9._:-]+)\{\d+\}\b
       Re(<<BOL, Ws0, Lit("CHILD_SA"), Ws1, NameCap, Lit("{"), Dig1, Lit("}"), WB>>, TRUE, FALSE),
       \* (?i)^\s*child\s+'([^']+)'
       Re(<<BOL, Ws0, Lit("child"), Ws1, Lit("'"), QuotedCap, Lit("'")>>, TRUE, FALSE),
       \* (?i)^\s*(?:child\s+)?([A-Za-z0-9._:-]+):\s+INSTALLED\b
       Re(<<BOL, Ws0, OptChild, NameCap, Lit(":"), Ws1, Lit("INSTALLED"), WB>>, TRUE, FALSE),
       \* (?i)\binstalled\s+CHILD_SA\s+'([^']+)'
       Re(<<WB, Lit("installed"), Ws1, Lit("CHILD_SA"), Ws1, Lit("'"), QuotedCap, Lit("'")>>,
          TRUE, FALSE),
       \* (?i)^\s*(?:child\s+)?([A-Za-z0-9._:-]+):\s*(?:TUNNEL|ESP|ROUTED|ESTABLISHED)\b
       Re(<<BOL, Ws0, OptChild, NameCap, Lit(":"), Ws0,
            Grp(<< <<Lit("TUNNEL")>>, <<Lit("ESP")>>, <<Lit("ROUTED")>>,
                   <<Lit("ESTABLISHED")>> >>), WB>>, TRUE, FALSE) >>

\* the inner loop: does any pattern of reList match the line
debugLineMatches(line) == \E i \in 1..Len(reList) : MatchString(reList[i], line)

debugLineMemo == Tabulate([l \in SasLines \cup {""} |-> debugLineMatches(l)])

DebugMatches(line) ==
    IF line \in DOMAIN debugLineMemo THEN debugLineMemo[line] ELSE debugLineMatches(line)

\* debugLoop without the break: the line is appended once per pattern
debugLoopNoBreak(matched, line) ==
    matched \o [k \in 1..Cardinality({i \in 1..Len(reList) : MatchString(reList[i], line)}) |-> line]

debugLoop(matched, line) == IF DebugMatches(line) THEN Append(matched, line) ELSE matched

RECURSIVE debugLines(_, _)
\* for _, line := range strings.Split(text, "\n")
debugLines(matched, ls) ==
    IF ls = <<>> THEN matched ELSE debugLines(debugLoop(matched, Head(ls)), Tail(ls))

NoMatchMessage == "No lines matched active-child patterns.\n\nFull output:\n"

\* the body debugActiveLinesHandler writes for a text
debugBody(text) ==
    LET matched == debugLines(<<>>, Split(text))
    IN  IF Len(matched) = 0 THEN NoMatchMessage \o text ELSE Join(matched, "\n")


(***************************************************************************)
(* The handlers.  sas and conns are what `swanctl --list-sas` and          *)
(* `swanctl --list-conns` produce when run: the combined output and        *)
(* whether runCmd returns an error.  One request is served at a time; ran  *)
(* lists the commands the request has run, resp is the response written.   *)
(* statusJSONHandler is modelled line by line: pc = "status" while its     *)
(* parse loop runs, with lines, idx, current and stats its locals.         *)
(***************************************************************************)
VARIABLES sas, conns, pc, ran, resp, lines, idx, current, stats, token, value

vars == <<sas, conns, pc, ran, resp, lines, idx, current, stats, token, value>>

\* the argument and the result of an integer normalization on its own
normVars == <<token, value>>

\* no normalization asked for
NoToken == token = "" /\ value = <<>>

NoResp == [endpoint |-> "none", code |-> 0, body |-> ""]

\* json.NewEncoder(w).Encode(v) with the default status
Ok(endpoint, v) == [endpoint |-> endpoint, code |-> 200, body |-> v]

\* http.Error(w, msg, http.StatusInternalServerError)
Error500(endpoint, msg) == [endpoint |-> endpoint, code |-> 500, body |-> msg]

NoLocals == lines = <<>> /\ idx = 0 /\ current = "" /\ stats = <<>>

TypeOK ==
    /\ sas \in [out : STRING, fails : BOOLEAN]
    /\ conns \in [out : STRING, fails : BOOLEAN]
    /\ pc \in {"idle", "status", "parseInt64", "returned"}
    /\ idx \in 0..(Len(lines) + 1)

InitSas ==
    /\ sas \in [out : SasTexts, fails : BOOLEAN]
    /\ conns = [out |-> "", fails |-> FALSE]
    /\ pc = "idle" /\ ran = <<>> /\ resp = NoResp
    /\ NoLocals
    /\ NoToken

InitChildren ==
    /\ sas \in [out : FallbackTexts, fails : BOOLEAN]
    /\ conns \in [out : ConnsTexts, fails : BOOLEAN]
    /\ pc = "idle" /\ ran = <<>> /\ resp = NoResp
    /\ NoLocals
    /\ NoToken

\* childrenNames running the fallback whatever the primary text gives
childrenNamesAlwaysFallback ==
    [names |-> ListConnsNames(conns.out) \o ListSasNames(sas.out),
     ran |-> <<"list-conns", "list-sas">>]

\* names after the optional fallback, and the commands run
childrenNames ==
    LET names == ListConnsNames(conns.out)
    IN  IF Len(names) = 0
        THEN [names |-> ListSasNames(sas.out), ran |-> <<"list-conns", "list-sas">>]
        ELSE [names |-> names, ran |-> <<"list-conns">>]

childrenJSONHandler ==
    /\ pc = "idle"
    /\ \E r \in {childrenNames} :
          /\ ran' = r.ran
          /\ resp' = Ok("children", DedupSort(r.names))
    /\ UNCHANGED <<sas, conns, pc, lines, idx, current, stats, normVars>>

\* what activeChildrenJSONHandler writes, given the result of runCmd
activeResponse(cmd) == Ok("active", parseActiveChildrenFromListSas(cmd.out))

activeChildrenJSONHandler ==
    /\ pc = "idle"
    /\ ran' = <<"list-sas">>
    /\ resp' = activeResponse(sas)
    /\ UNCHANGED <<sas, conns, pc, lines, idx, current, stats, normVars>>

\* statusJSONHandler up to the loop of parseStatusToStats: the command,
\* the error check, and the locals of the parse
statusJSONHandler ==
    /\ pc = "idle"
    /\ ran' = <<"list-sas">>
    /\ IF sas.fails
       THEN /\ resp' = Error500("status", sas.out)
            /\ UNCHANGED <<pc, lines, idx, current, stats>>
       ELSE /\ resp' = NoResp
            /\ pc' = "status"
            /\ lines' = Split(sas.out)
            /\ idx' = 1
            /\ current' = StatusStart.current
            /\ stats' = StatusStart.stats
    /\ UNCHANGED <<sas, conns, normVars>>

\* one iteration of the loop over the lines
statusLine ==
    /\ pc = "status"
    /\ idx <= Len(lines)
    /\ LET ctx == statusLoop([current |-> current, stats |-> stats], lines[idx])
       IN  /\ current' = ctx.current
           /\ stats' = ctx.stats
    /\ idx' = idx + 1
    /\ UNCHANGED <<sas, conns, pc, ran, resp, lines, normVars>>

\* return stats, and the response of statusJSONHandler
statusReturn ==
    /\ pc = "status"
    /\ idx > Len(lines)
    /\ resp' = Ok("status", stats)
    /\ pc' = "idle"
    /\ lines' = <<>> /\ idx' = 0 /\ current' = "" /\ stats' = <<>>
    /\ UNCHANGED <<sas, conns, ran, normVars>>

debugActiveLinesHandler ==
    /\ pc = "idle"
    /\ ran' = <<"list-sas">>
    /\ resp' = [endpoint |-> "debug", code |-> 200, body |-> debugBody(sas.out)]
    /\ UNCHANGED <<sas, conns, pc, lines, idx, current, stats, normVars>>

\* a call parseInt64(stripCommas(token)): var n int64, i := 0
integerNormalize ==
    /\ pc = "idle"
    /\ value = <<>>
    /\ pc' = "parseInt64"
    /\ idx' = 1
    /\ value' = Int64Zero
    /\ UNCHANGED <<sas, conns, ran, resp, lines, current, stats, token>>

\* one pass of the loop of parseInt64 that does not return
parseInt64Digit ==
    /\ pc = "parseInt64"
    /\ \E r \in {parseInt64Iter(stripCommas(token), idx, value)} :
          /\ ~r.returns
          /\ idx' = r.i
          /\ value' = r.n
    /\ UNCHANGED <<sas, conns, pc, ran, resp, lines, current, stats, token>>

\* return n
parseInt64Return ==
    /\ pc = "parseInt64"
    /\ parseInt64Iter(stripCommas(token), idx, value).returns
    /\ pc' = "returned"
    /\ idx' = 0
    /\ UNCHANGED <<sas, conns, ran, resp, lines, current, stats, token, value>>

InitNormalize ==
    /\ token \in Tokens
    /\ value = <<>>
    /\ sas = [out |-> "", fails |-> FALSE]
    /\ conns = [out |-> "", fails |-> FALSE]
    /\ pc = "idle" /\ ran = <<>> /\ resp = NoResp
    /\ NoLocals

Next ==
    \/ activeChildrenJSONHandler
    \/ statusJSONHandler
    \/ statusLine
    \/ statusReturn
    \/ debugActiveLinesHandler

NextChildren == childrenJSONHandler

Spec == InitSas /\ [][Next]_vars

SpecChildren == InitChildren /\ [][NextChildren]_vars

NextNormalize == integerNormalize \/ parseInt64Digit \/ parseInt64Return

SpecNormalize == InitNormalize /\ [][NextNormalize]_vars

(***************************************************************************)
(* Properties                                                              *)
(***************************************************************************)
Ascending(q) == \A i \in 1..(Len(q) - 1) : StrLess(q[i], q[i + 1])

Counters(st) == <<st.InBytes, st.OutBytes, st.InPkts, st.OutPkts>>

\* a completed pass of the status aggregator over the text sas.out
StatusDone == resp.endpoint = "status" /\ resp.code = 200

SasInput == Split(sas.out)

\* line i of the text, seen by the aggregator: whether it is a header line
\* and the name it captures, whether it is a counter line, its direction
\* and its counts
IsHeader(L, i) == StatusCases(L[i]).header.case # 0

HeaderName(L, i) == StatusCases(L[i]).header.caps[1]

IsCounter(L, i) == ~IsHeader(L, i) /\ StatusCases(L[i]).counter.case # 0

IsInbound(L, i) == StatusCases(L[i]).counter.case \in {1, 3, 5, 7}

LineBytes(L, i) == parseInt64(stripCommas(StatusCases(L[i]).counter.caps[1]))

LinePkts(L, i) == parseInt64(stripCommas(StatusCases(L[i]).counter.caps[2]))

\* the index of the last header line before line i, 0 when there is none
LastHeader(L, i) ==
    LET hs == {h \in 1..(i - 1) : IsHeader(L, h)}
    IN  IF hs = {} THEN 0 ELSE CHOOSE h \in hs : \A k \in hs : k <= h

\* the counter lines read while name n is the current connection
CounterLinesOf(L, n) ==
    {j \in 1..Len(L) :
        IsCounter(L, j) /\ LastHeader(L, j) # 0 /\ HeaderName(L, LastHeader(L, j)) = n}

LastOf(S) == CHOOSE j \in S : \A k \in S : k <= j

\* C1: the names of the active-connection list equal the keys of the status
\* mapping with active = true, both computed from the same text
C1_ActiveListEqualsStatusKeys ==
    resp.endpoint = "active" =>
        LET m == parseStatusToStats(sas.out)
        IN  Range(resp.body) = {n \in DOMAIN m : m[n].Active}

\* C2: after a pass the mapping has a record for a name iff some header line
\* captures that name; every record is active; a name with no counter line
\* between any of its header lines and the next header (or the end) has all
\* counters zero; counter lines before the first header create no record
C2_RecordsIffHeader ==
    StatusDone =>
        LET L == SasInput
            m == resp.body
            headers == {h \in 1..Len(L) : IsHeader(L, h)}
        IN  /\ DOMAIN m = {HeaderName(L, h) : h \in headers}
            /\ \A n \in DOMAIN m : m[n].Active = TRUE
            /\ \A n \in DOMAIN m :
                  CounterLinesOf(L, n) = {} => Counters(m[n]) = Counters(ZeroStats)
            /\ headers = {} => m = <<>>

\* a pass over a text that starts with a counter line, has a header after
\* it and leaves a record without counts
C2_Witness ==
    /\ StatusDone
    /\ LET L == SasInput
       IN  /\ Len(L) >= 2
           /\ IsCounter(L, 1)
           /\ \E h \in 2..Len(L) : IsHeader(L, h)
           /\ \E n \in DOMAIN resp.body : Counters(resp.body[n]) = Counters(ZeroStats)

\* C3 (result): at the end of the pass each direction's counts of a name are
\* those of the last counter line of that direction read while the name was
\* current
C3_LastCounterLineWins ==
    StatusDone =>
        LET L == SasInput
            m == resp.body
        IN  \A n \in DOMAIN m :
                LET ins == {j \in CounterLinesOf(L, n) : IsInbound(L, j)}
                    outs == {j \in CounterLinesOf(L, n) : ~IsInbound(L, j)}
                IN  /\ ins # {} => /\ m[n].InBytes = LineBytes(L, LastOf(ins))
                                   /\ m[n].InPkts = LinePkts(L, LastOf(ins))
                    /\ outs # {} => /\ m[n].OutBytes = LineBytes(L, LastOf(outs))
                                    /\ m[n].OutPkts = LinePkts(L, LastOf(outs))

\* C3 (step): a counter line read while a connection is current sets the
\* counts of its direction on the record of the current connection and
\* leaves the other direction, the other records and current as they are
C3_CounterLineStep ==
    (pc = "status" /\ idx <= Len(lines) /\ idx' = idx + 1
        /\ IsCounter(lines, idx) /\ current # "") =>
        /\ current' = current
        /\ DOMAIN stats' = DOMAIN stats
        /\ \A n \in DOMAIN stats \ {current} : stats'[n] = stats[n]
        /\ stats'[current] =
              IF IsInbound(lines, idx)
              THEN [stats[current] EXCEPT !.InBytes = LineBytes(lines, idx),
                                          !.InPkts = LinePkts(lines, idx)]
              ELSE [stats[current] EXCEPT !.OutBytes = LineBytes(lines, idx),
                                          !.OutPkts = LinePkts(lines, idx)]

\* C3: a counter line replaces the counts of its direction on the current
\* connection's record, so the last counter line of each direction wins
C3_CounterLinesOverwrite == [](C3_LastCounterLineWins) /\ [][C3_CounterLineStep]_vars

\* a pass in which a name was current for two inbound counter lines with
\* different counts
C3_Witness ==
    /\ StatusDone
    /\ LET L == SasInput
       IN  \E n \in DOMAIN resp.body :
              \E j, k \in CounterLinesOf(L, n) :
                  /\ j < k
                  /\ IsInbound(L, j) /\ IsInbound(L, k)
                  /\ LineBytes(L, j) # LineBytes(L, k)
                  /\ resp.body[n].InBytes = LineBytes(L, k)

\* the three matchers of the configured-connection listing on a text, and
\* the header matchers of its fallback, each applied on its own
PrimaryMatches(text) ==
    <<Range(Captures(FindAllStringSubmatch(reChildTunnel, text))),
      UNION {Range(ChildrenListLine(l)) : l \in Range(Split(text))},
      UNION {Range(ChildLine(l)) : l \in Range(Split(text))}>>

SecondaryMatches(text) ==
    <<Range(Captures(FindAllStringSubmatch(reBraceSas, text))),
      Range(Captures(FindAllStringSubmatch(reChildSaSas, text))),
      Range(Captures(FindAllStringSubmatch(reQuotedSas, text)))>>

primaryMatchesMemo == Tabulate([t \in ConnsTexts |-> PrimaryMatches(t)])

secondaryMatchesMemo == Tabulate([t \in FallbackTexts |-> SecondaryMatches(t)])

TrimmedNames(S) == {TrimSpace(n) : n \in S} \ {""}

\* the non-empty trimmed names any of the three matchers captures
PrimaryNames(text) ==
    LET m == primaryMatchesMemo[text] IN TrimmedNames(m[1] \cup m[2] \cup m[3])

SecondaryNames(text) ==
    LET m == secondaryMatchesMemo[text] IN TrimmedNames(m[1] \cup m[2] \cup m[3])

C5_SasFailureIsAnError ==
    (sas.fails /\ resp.endpoint \in {"status", "active"}) => resp.code # 200

\* C6: in the listing a failed command's output counts as the empty text
C6_FailedSourceIsEmpty ==
    resp.endpoint = "children" =>
        LET P == IF conns.fails THEN {} ELSE PrimaryNames(conns.out)
            S == IF sas.fails THEN {} ELSE SecondaryNames(sas.out)
        IN  /\ resp.code = 200
            /\ Range(resp.body) = IF P # {} THEN P ELSE S
            /\ (conns.fails /\ sas.fails) => resp.body = <<>>

\* C7: the trace is the lines from which the active-connection extractor
\* takes a name, in input order, each once; when there is none it is the
\* diagnostic message followed by the text
C7_DebugTrace ==
    resp.endpoint = "debug" =>
        LET L == SasInput
            hit(l) == ActiveNames(l) # {}
        IN  IF \E i \in 1..Len(L) : hit(L[i])
            THEN Split(resp.body) = SelectSeq(L, hit)
            ELSE resp.body = NoMatchMessage \o sas.out /\ Len(resp.body) > Len(sas.out)

\* the number of patterns of the trace that match a line
PatternsMatching(l) == Cardinality({i \in 1..Len(reList) : MatchString(reList[i], l)})

patternsMatchingMemo == Tabulate([l \in SasLines \cup {""} |-> PatternsMatching(l)])

\* a trace of a text with a line that two patterns match and a line that
\* none matches
C7_Witness ==
    /\ resp.endpoint = "debug"
    /\ \E i \in 1..Len(SasInput) : patternsMatchingMemo[SasInput[i]] >= 2
    /\ \E i \in 1..Len(SasInput) : patternsMatchingMemo[SasInput[i]] = 0
    /\ Len(Split(resp.body)) < Len(SasInput)

\* a trace of a text no pattern matches
C7_WitnessNoMatch ==
    /\ resp.endpoint = "debug"
    /\ sas.out # ""
    /\ \A i \in 1..Len(SasInput) : patternsMatchingMemo[SasInput[i]] = 0

\* C8: a header line for a name that has a record leaves the counters of
\* that record and every other record unchanged, makes the name current and
\* keeps it active; a header line for a new name creates a record with all
\* counters zero
C8_HeaderLineStep ==
    (pc = "status" /\ idx <= Len(lines) /\ idx' = idx + 1 /\ IsHeader(lines, idx)) =>
        LET n == HeaderName(lines, idx)
        IN  /\ current' = n
            /\ DOMAIN stats' = DOMAIN stats \cup {n}
            /\ stats'[n].Active = TRUE
            /\ Counters(stats'[n]) =
                  IF n \in DOMAIN stats THEN Counters(stats[n]) ELSE Counters(ZeroStats)
            /\ \A m \in DOMAIN stats \ {n} : stats'[m] = stats[m]

C8_HeaderKeepsCounters == [][C8_HeaderLineStep]_vars

\* the aggregator has just read a header line for a name whose record has
\* counts, and another name has a record
C8_Witness ==
    /\ pc = "status"
    /\ idx > 1
    /\ IsHeader(lines, idx - 1)
    /\ current = HeaderName(lines, idx - 1)
    /\ stats[current].InBytes # Int64Zero
    /\ \E h \in 1..(idx - 2) : IsHeader(lines, h) /\ HeaderName(lines, h) = current

\* the header patterns in the order hash-ESP, brace, CHILD_SA, quoted, each
\* applied on its own to a line
HeaderMatches(l) ==
    <<FindStringSubmatch(reHeaderHashESP, l), FindStringSubmatch(reHeaderBrace, l),
      FindStringSubmatch(reHeaderChildSA, l), FindStringSubmatch(reHeaderQuoted, l)>>

headerMatchesMemo == Tabulate([l \in SasLines \cup {""} |-> HeaderMatches(l)])

\* whether any of the eight counter patterns matches a line
MatchesCounterPattern(l) == \E i \in 1..Len(counterCases) : MatchString(counterCases[i], l)

counterPatternMemo == Tabulate([l \in SasLines \cup {""} |-> MatchesCounterPattern(l)])

\* C9: the current connection becomes the name captured by the earliest
\* header pattern, in the order hash-ESP, brace, CHILD_SA, quoted, that
\* matches the line, and a line that matches a header pattern is not
\* processed as a counter line
C9_HeaderStep ==
    (pc = "status" /\ idx <= Len(lines) /\ idx' = idx + 1) =>
        LET ms == headerMatchesMemo[lines[idx]]
            hits == {i \in 1..4 : ms[i].ok}
        IN  hits # {} =>
              LET first == CHOOSE i \in hits : \A k \in hits : i <= k
              IN  /\ current' = ms[first].caps[1]
                  /\ \A n \in DOMAIN stats' :
                        Counters(stats'[n]) =
                           IF n \in DOMAIN stats THEN Counters(stats[n]) ELSE Counters(ZeroStats)

C9_HeaderFirstMatchWins == [][C9_HeaderStep]_vars

\* the aggregator has just read a line that matches a header pattern and a
\* counter pattern
C9_Witness ==
    /\ pc = "status"
    /\ idx > 1
    /\ \E i \in 1..4 : headerMatchesMemo[lines[idx - 1]][i].ok
    /\ counterPatternMemo[lines[idx - 1]]
    /\ Counters(stats[current]) = Counters(ZeroStats)

\* the seven patterns of the active-connection extractor, each applied on
\* its own to a line, in the order of the switch
ActiveMatches(l) ==
    <<FindStringSubmatch(reBrace, l), FindStringSubmatch(reChildSa, l),
      FindStringSubmatch(reQuoted, l), FindStringSubmatch(reInstalled, l),
      FindStringSubmatch(reInstalledLog, l), FindStringSubmatch(reChildHashESP, l),
      FindStringSubmatch(reTolerantHeader, l)>>

activeMatchesMemo == Tabulate([l \in SasLines \cup {""} |-> ActiveMatches(l)])

\* the names all the matching patterns capture on a line
AllCaptures(l) ==
    LET ms == activeMatchesMemo[l] IN {ms[i].caps[1] : i \in {k \in 1..7 : ms[k].ok}}

\* the name the first matching pattern captures on a line
FirstCapture(l) ==
    LET ms == activeMatchesMemo[l]
        hits == {k \in 1..7 : ms[k].ok}
    IN  IF hits = {} THEN {} ELSE {ms[CHOOSE i \in hits : \A k \in hits : i <= k].caps[1]}

\* C10 as stated: the list has the names captured by every pattern that
\* matches a line, ascending and without duplicates
C10_EveryPatternContributes ==
    resp.endpoint = "active" =>
        /\ Ascending(resp.body)
        /\ Range(resp.body) = UNION {AllCaptures(l) : l \in Range(SasInput)}

\* C10 amended: each line contributes the name captured by the first
\* pattern that matches it, in the order brace, CHILD_SA, quoted, INSTALLED,
\* installed-log, hash-ESP, tolerant header; the list is these names,
\* ascending and without duplicates
C10_FirstPatternContributes ==
    resp.endpoint = "active" =>
        /\ Ascending(resp.body)
        /\ Range(resp.body) = UNION {FirstCapture(l) : l \in Range(SasInput)}

\* a list from a text with a line on which two patterns capture different
\* names, and with two names in all
C10_Witness ==
    /\ resp.endpoint = "active"
    /\ Len(resp.body) >= 2
    /\ \E l \in Range(SasInput) : Cardinality(AllCaptures(l)) >= 2

(***************************************************************************)
(* C11: integer normalization.  The decimal value of a digit run is a      *)
(* natural number of any size, kept as limbs of 16 bits, least significant *)
(* first, without leading zero limbs.                                      *)
(***************************************************************************)
CharsOf(t) == [i \in 1..Len(t) |-> Ch(t, i)]

\* the characters of a token that are not commas, in order
WithoutCommas(t) == SelectSeq(CharsOf(t), LAMBDA c : c # ",")

\* the longest leading run of digits of a sequence of characters
LeadingDigits(cs) ==
    LET k == CHOOSE j \in 0..Len(cs) :
                 /\ \A i \in 1..j : cs[i] \in Digits
                 /\ (j = Len(cs) \/ cs[j + 1] \notin Digits)
    IN  SubSeq(cs, 1, k)

RECURSIVE NatMulAddFrom(_, _, _, _)
NatMulAddFrom(v, m, carry, i) ==
    IF i > Len(v) THEN (IF carry = 0 THEN <<>> ELSE <<carry>>)
    ELSE LET t == v[i] * m + carry
         IN  <<t % LimbBase>> \o NatMulAddFrom(v, m, t \div LimbBase, i + 1)

\* v*m + d on natural numbers
NatMulAdd(v, m, d) == NatMulAddFrom(v, m, d, 1)

RECURSIVE DecimalValueFrom(_, _, _)
DecimalValueFrom(ds, i, v) ==
    IF i > Len(ds) THEN v
    ELSE DecimalValueFrom(ds, i + 1, NatMulAdd(v, 10, DigitValue(ds[i])))

\* the number a run of decimal digits denotes; the empty run denotes 0
DecimalValue(ds) == DecimalValueFrom(ds, 1, <<>>)

\* a natural number is an int64 value when it is below 2^63
FitsInt64(v) ==
    \/ Len(v) < Int64Limbs
    \/ Len(v) = Int64Limbs /\ v[Int64Limbs] < LimbBase \div 2

\* the int64 holding a natural number that fits
NatAsInt64(v) == [i \in 1..Int64Limbs |-> IF i <= Len(v) THEN v[i] ELSE 0]

\* the number the claim gives for a token
NormalizedValue(t) == DecimalValue(LeadingDigits(WithoutCommas(t)))

\* C11: for every token of digits, commas and other characters, integer
\* normalization (stripCommas, then parseInt64) returns the decimal value
\* of the longest leading run of digits of the token with its commas
\* removed, 0 when that run is empty, and always returns a value.
C11_NormalizationIsDecimalValue ==
    pc = "returned" =>
        /\ FitsInt64(NormalizedValue(token))
        /\ value = NatAsInt64(NormalizedValue(token))

====
